---- MODULE Spec2Model ----
(***************************************************************************)
(* The meal ranking application of src/app.py: load_data, the Bayesian     *)
(* score, filter_dataframe and the three pages of the Streamlit script     *)
(* (Home, Meal Rankings, Statistics & Insights).                           *)
(*                                                                         *)
(* Numbers of float64 columns are binary floating-point values with        *)
(* round-to-nearest-even arithmetic.  A value is a record [n, d]: the      *)
(* rational n/d when d > 0, NaN when n = 0 and d = 0, +inf / -inf when     *)
(* d = 0 and n = 1 / n = -1.  Every operation returns the float nearest to *)
(* its exact result, as IEEE 754 does; Precision is the mantissa width the *)
(* model rounds to (float64 has 53 bits).  Ints (review counts, m, 1000)   *)
(* enter an operation exactly, as ints of that size do in float64.         *)
(* Strings are sequences of one-character strings; tags hold no regex      *)
(* metacharacters.                                                         *)
(***************************************************************************)
EXTENDS Integers, Sequences, FiniteSets, TLC

\* ------------------------------------------------------------------ bounds
\* Mantissa width, in bits, of the model's floating-point numbers.
Precision == 5
\* Largest number of rows of meals.csv.
MaxRows == 2

\* ------------------------------------------------- floating-point numbers
NaN == [n |-> 0, d |-> 0]

IsNaN(x) == x.n = 0 /\ x.d = 0
IsFinite(x) == x.d > 0

RECURSIVE Pow2(_)
Pow2(k) == IF k = 0 THEN 1 ELSE 2 * Pow2(k - 1)

\* n/d in lowest terms for a denominator that is a power of two.
RECURSIVE Reduce(_, _)
Reduce(n, d) ==
    IF n = 0 THEN [n |-> 0, d |-> 1]
    ELSE IF d > 1 /\ n % 2 = 0 THEN Reduce(n \div 2, d \div 2)
    ELSE [n |-> n, d |-> d]

\* The nearest float to the positive rational n/d, ties to the even mantissa.
RECURSIVE RoundPos(_, _)
RoundPos(n, d) ==
    IF n >= d * Pow2(Precision)
    THEN LET r == RoundPos(n, 2 * d) IN [n |-> 2 * r.n, d |-> r.d]
    ELSE IF n < d * Pow2(Precision - 1)
    THEN LET r == RoundPos(2 * n, d) IN [n |-> r.n, d |-> 2 * r.d]
    ELSE LET q == n \div d
             r == n % d
             up == 2 * r > d \/ (2 * r = d /\ q % 2 = 1)
         IN  [n |-> IF up THEN q + 1 ELSE q, d |-> 1]

\* The float nearest to the rational n/d (d > 0).
Fl(n, d) ==
    IF n = 0 THEN [n |-> 0, d |-> 1]
    ELSE IF n > 0 THEN LET r == RoundPos(n, d) IN Reduce(r.n, r.d)
    ELSE LET r == RoundPos(-n, d) IN Reduce(-r.n, r.d)

\* An int operand of a float operation (review counts, m, 1000): ints of that
\* size convert to float64 without rounding.
FromInt(i) == [n |-> i, d |-> 1]

Sign(i) == IF i > 0 THEN 1 ELSE IF i < 0 THEN -1 ELSE 0

FAdd(a, b) ==
    IF IsNaN(a) \/ IsNaN(b) THEN NaN
    ELSE IF a.d = 0 /\ b.d = 0 THEN (IF a.n = b.n THEN a ELSE NaN)
    ELSE IF a.d = 0 THEN a
    ELSE IF b.d = 0 THEN b
    ELSE Fl(a.n * b.d + b.n * a.d, a.d * b.d)

FMul(a, b) ==
    IF IsNaN(a) \/ IsNaN(b) THEN NaN
    ELSE IF a.d = 0 \/ b.d = 0
    THEN (IF a.n = 0 \/ b.n = 0 THEN NaN
          ELSE [n |-> Sign(a.n) * Sign(b.n), d |-> 0])
    ELSE Fl(a.n * b.n, a.d * b.d)

FDiv(a, b) ==
    IF IsNaN(a) \/ IsNaN(b) THEN NaN
    ELSE IF a.d = 0 /\ b.d = 0 THEN NaN
    ELSE IF a.d = 0 THEN [n |-> Sign(a.n) * (IF b.n < 0 THEN -1 ELSE 1), d |-> 0]
    ELSE IF b.d = 0 THEN [n |-> 0, d |-> 1]
    ELSE IF b.n = 0 THEN (IF a.n = 0 THEN NaN ELSE [n |-> Sign(a.n), d |-> 0])
    ELSE IF b.n > 0 THEN Fl(a.n * b.d, a.d * b.n)
    ELSE Fl(-(a.n * b.d), a.d * (-b.n))

\* Comparisons; every comparison with NaN is false.
FLe(a, b) == ~IsNaN(a) /\ ~IsNaN(b) /\ a.n * b.d <= b.n * a.d
FLt(a, b) == ~IsNaN(a) /\ ~IsNaN(b) /\ a.n * b.d < b.n * a.d
FGe(a, b) == FLe(b, a)
FGt(a, b) == FLt(b, a)
FEq(a, b) == ~IsNaN(a) /\ ~IsNaN(b) /\ a.n * b.d = b.n * a.d

\* ----------------------------------------------------------------- strings
NaNStr == <<"NaN">>

Range(s) == {s[i] : i \in 1..Len(s)}

\* str.split(delim) for a one-character delimiter.
RECURSIVE Split(_, _)
Split(s, delim) ==
    IF \A i \in 1..Len(s) : s[i] # delim THEN <<s>>
    ELSE LET k == CHOOSE i \in 1..Len(s) :
                      s[i] = delim /\ \A j \in 1..(i - 1) : s[j] # delim
         IN  <<SubSeq(s, 1, k - 1)>> \o Split(SubSeq(s, k + 1, Len(s)), delim)

\* str.strip()
RECURSIVE Strip(_)
Strip(s) ==
    IF s = <<>> THEN s
    ELSE IF s[1] = " " THEN Strip(Tail(s))
    ELSE IF s[Len(s)] = " " THEN Strip(SubSeq(s, 1, Len(s) - 1))
    ELSE s

\* delim.join(parts)
RECURSIVE Join(_, _)
Join(parts, delim) ==
    IF parts = <<>> THEN <<>>
    ELSE IF Len(parts) = 1 THEN parts[1]
    ELSE parts[1] \o <<delim>> \o Join(Tail(parts), delim)

IsSubstring(p, s) ==
    \E i \in 0..(Len(s) - Len(p)) : SubSeq(s, i + 1, i + Len(p)) = p

\* re.search(pat, s) for a pattern of literal alternatives separated by "|".
RegexSearch(pat, s) == \E alt \in Range(Split(pat, "|")) : IsSubstring(alt, s)

\* Series.str.contains(pat, na=False) on one cell.
StrContains(cell, pat) == cell # NaNStr /\ RegexSearch(pat, cell)

\* ------------------------------------------------------------- meals.csv
\* The columns of meals.csv that the ranking and the filters read.
CsvColumns == {"rating", "review_count", "price", "calories", "cuisines",
               "specifications"}

Q(n, d) == [n |-> n, d |-> d]

\* The rows a meals.csv is made of: rated and unrated meals, known, missing,
\* zero and below-floor prices, one-tag, multi-tag and missing tag strings.
MealPool ==
    { [rating |-> Q(5, 1), review_count |-> Q(12, 1), price |-> Q(10, 1),
       calories |-> 500, cuisines |-> <<"a">>, specifications |-> <<"v">>],
      [rating |-> Q(5, 1), review_count |-> Q(12, 1), price |-> NaN,
       calories |-> 500, cuisines |-> <<"l", " ", "a">>,
       specifications |-> <<"v", "|", "g">>],
      [rating |-> NaN, review_count |-> NaN, price |-> Q(10, 1),
       calories |-> 500, cuisines |-> <<"b", ",", " ", "a">>,
       specifications |-> NaNStr],
      [rating |-> Q(25, 8), review_count |-> Q(0, 1), price |-> Q(0, 1),
       calories |-> 501, cuisines |-> NaNStr, specifications |-> <<"g">>],
      [rating |-> Q(9, 2), review_count |-> Q(100, 1), price |-> Q(5, 1),
       calories |-> 500, cuisines |-> <<"l", " ", "a">>,
       specifications |-> NaNStr] }

\* The files meals.csv can be: one to MaxRows rows.
CsvFiles == UNION {[1..k -> MealPool] : k \in 1..MaxRows}

\* pd.read_csv: the rows in file order under a RangeIndex (column idx).
ReadCsv(file) == [i \in 1..Len(file) |-> [idx |-> i] @@ file[i]]

\* Series.fillna(value) on one cell.
FillNa(x, value) == IF IsNaN(x) THEN value ELSE x

load_data(file) ==
    LET raw == ReadCsv(file)
    IN  [i \in 1..Len(raw) |->
            [raw[i] EXCEPT !.review_count = FillNa(@, Q(0, 1)),
                           !.rating = FillNa(@, Q(0, 1))]]

\* DataFrame.columns of a non-empty frame (idx is the index, not a column).
Columns(frame) == (DOMAIN frame[1]) \ {"idx"}

\* Series.sum() / Series.mean() over a float column, left to right.
RECURSIVE SeriesSum(_)
SeriesSum(col) ==
    IF col = <<>> THEN Q(0, 1)
    ELSE FAdd(SeriesSum(SubSeq(col, 1, Len(col) - 1)), col[Len(col)])

SeriesMean(col) == FDiv(SeriesSum(col), FromInt(Len(col)))

Column(frame, name) == [i \in 1..Len(frame) |-> frame[i][name]]

\* ---------------------------------------------------------- score engine
\* (v * R + m * C) / (v + m) for one row; m is an int, C a float.
\* v + m for a review count v and an int m: a sum of whole numbers of this
\* size is exact in float64.
CountPlus(v, m) == IF v.d = 1 THEN Q(v.n + m, 1) ELSE FAdd(v, FromInt(m))

\* The score with the review count left out of the divisor.
BayesianAvgOverWeight(R, v, C, m) ==
    FDiv(FAdd(FMul(v, R), FMul(FromInt(m), C)), FromInt(m))

\* The score with the prior left unweighted in the numerator.
BayesianAvgUnweightedPrior(R, v, C, m) ==
    FDiv(FAdd(FMul(v, R), C), CountPlus(v, m))

BayesianAvg(R, v, C, m) ==
    FDiv(FAdd(FMul(v, R), FMul(FromInt(m), C)), CountPlus(v, m))

calculate_bayesian_ratings(frame, C, m) ==
    [i \in 1..Len(frame) |->
        BayesianAvg(frame[i].rating, frame[i].review_count, C, m)]

\* ------------------------------------------------------------ tag options
\* The injective sequence over a finite set that a multiselect returns.
SetToSeq(S) ==
    CHOOSE f \in [1..Cardinality(S) -> S] :
        \A i, j \in 1..Cardinality(S) : f[i] = f[j] => i = j

UniqueTags(frame, column, delim) ==
    {Strip(tag) : tag \in UNION {Range(Split(frame[i][column], delim)) :
                                      i \in {k \in 1..Len(frame) :
                                                 frame[k][column] # NaNStr}}}

get_unique_cuisines(frame) == UniqueTags(frame, "cuisines", ",")

get_unique_specifications(frame) == UniqueTags(frame, "specifications", "|")

\* --------------------------------------------------------- filter pipeline
Positive(x) == FGt(x, Q(0, 1))

\* The unrated exclusion taken against the frame's own mean rating.
RatedStageAboveMean(frame) ==
    SelectSeq(frame,
        LAMBDA r : FGt(r.rating, SeriesMean(Column(frame, "rating"))))

RatedStage(frame) == SelectSeq(frame, LAMBDA r : Positive(r.rating))

CuisineStage(frame, cuisine_filter) ==
    IF cuisine_filter = <<>> THEN frame
    ELSE SelectSeq(frame,
            LAMBDA r : StrContains(r.cuisines, Join(cuisine_filter, "|")))

DietStage(frame, diet_filter) ==
    IF diet_filter = <<>> THEN frame
    ELSE SelectSeq(frame,
            LAMBDA r : StrContains(r.specifications, Join(diet_filter, "|")))

\* The calorie stage with the upper bound taken strictly.
CalorieStageExclusiveMax(frame, calorie_range) ==
    SelectSeq(frame, LAMBDA r : /\ r.calories >= calorie_range[1]
                                /\ r.calories < calorie_range[2])

CalorieStage(frame, calorie_range) ==
    SelectSeq(frame, LAMBDA r : /\ r.calories >= calorie_range[1]
                                /\ r.calories <= calorie_range[2])

PriceMask(r, price_range) ==
    \/ IsNaN(r.price)
    \/ (FGe(r.price, price_range[1]) /\ FLe(r.price, price_range[2]))

\* The price stage without the isna() term of the mask.
PriceStageNoNulls(frame, price_range) ==
    IF frame = <<>> THEN frame
    ELSE SelectSeq(frame, LAMBDA r : /\ FGe(r.price, price_range[1])
                                     /\ FLe(r.price, price_range[2]))

PriceStage(frame, price_range) ==
    IF frame = <<>> THEN frame
    ELSE SelectSeq(frame, LAMBDA r : PriceMask(r, price_range))

filter_dataframe(frame, cuisine_filter, diet_filter, calorie_range, price_range) ==
    PriceStage(
        CalorieStage(
            DietStage(CuisineStage(RatedStage(frame), cuisine_filter), diet_filter),
            calorie_range),
        price_range)

\* ------------------------------------------------------------------ ranker
IndexPermutations(n) ==
    {p \in [1..n -> 1..n] : \A i, j \in 1..n : p[i] = p[j] => i = j}

\* a sorts strictly before b in a descending sort with NaN last.
Before(a, b) == (~IsNaN(a) /\ IsNaN(b)) \/ FGt(a, b)

\* DataFrame.sort_values(key, ascending=False): kind defaults to quicksort,
\* which is not stable, so rows with equal keys come out in any order; rows
\* with a NaN key follow in index order.
SortValuesDescending(frame, key) ==
    {[i \in 1..Len(frame) |-> frame[p[i]]] : p \in
        {q \in IndexPermutations(Len(frame)) :
            \A i, j \in 1..Len(frame) :
                i < j => /\ ~Before(frame[q[j]][key], frame[q[i]][key])
                         /\ (IsNaN(frame[q[i]][key]) /\ IsNaN(frame[q[j]][key])
                                => q[i] < q[j])}}

\* frame with a new column of the given values.
WithColumn(frame, name, values) ==
    [i \in 1..Len(frame) |-> (name :> values[i]) @@ frame[i]]

\* ------------------------------------------------------------------- state
VARIABLES
    csv,             \* meals.csv, the rows in file order
    df,              \* the script's global df = load_data()
    pc,              \* where the current script run or call stands
    C, m,            \* prior and weight of the last score computation
    bayesian_avg,    \* the Series calculate_bayesian_ratings returned
    cuisine_filter, diet_filter, calorie_range, price_range,
    filtered_meals,  \* what filter_dataframe returned last
    first_pass,      \* what it returned the time before, when applied twice
    sorted_meals,    \* Meal Rankings: the rating-ranked sequence
    min_rating, max_price, max_calories,
    top_value_meals, \* Statistics: the value-ranked sequence
    outcome          \* how the last call ended: "returned" or the error raised

score_vars == <<C, m, bayesian_avg>>
filter_args == <<cuisine_filter, diet_filter, calorie_range, price_range>>
filter_vars == <<filtered_meals, first_pass>>
stats_vars == <<min_rating, max_price, max_calories, top_value_meals>>
vars == <<csv, df, pc, score_vars, filter_args, filter_vars, sorted_meals,
          stats_vars, outcome>>

\* m = 100, the minimum reviews weight of both pages.
DefaultM == 100
\* The factor of the value score.
ValueScale == 1000

\* A run of the script starts with empty locals and a fresh df.
FreshRun ==
    /\ df' = load_data(csv)
    /\ pc' = "loaded"
    /\ C' = NaN /\ m' = 0 /\ bayesian_avg' = <<>>
    /\ cuisine_filter' = <<>> /\ diet_filter' = <<>>
    /\ calorie_range' = <<0, 0>> /\ price_range' = <<Q(0, 1), Q(0, 1)>>
    /\ filtered_meals' = <<>> /\ first_pass' = <<>>
    /\ sorted_meals' = <<>>
    /\ min_rating' = NaN /\ max_price' = NaN /\ max_calories' = 0
    /\ top_value_meals' = <<>>
    /\ outcome' = "none"

Init ==
    /\ csv \in CsvFiles
    /\ df = load_data(csv)
    /\ pc = "loaded"
    /\ C = NaN /\ m = 0 /\ bayesian_avg = <<>>
    /\ cuisine_filter = <<>> /\ diet_filter = <<>>
    /\ calorie_range = <<0, 0>> /\ price_range = <<Q(0, 1), Q(0, 1)>>
    /\ filtered_meals = <<>> /\ first_pass = <<>>
    /\ sorted_meals = <<>>
    /\ min_rating = NaN /\ max_price = NaN /\ max_calories = 0
    /\ top_value_meals = <<>>
    /\ outcome = "none"

\* Streamlit reruns the script: df = load_data() again.
Rerun ==
    /\ pc # "loaded"
    /\ FreshRun
    /\ UNCHANGED csv

\* ------------------------------------------------------------------- pages
HomePage ==
    /\ pc = "loaded"
    /\ pc' = "home"
    /\ UNCHANGED <<csv, df, score_vars, filter_args, filter_vars, sorted_meals,
                   stats_vars, outcome>>

\* The selections a multiselect over the given options can return.
Selections(options) == {SetToSeq(S) : S \in SUBSET options}

\* The (low, high) pairs a range slider from 0 to the column maximum returns.
CalorieSlider(frame) ==
    LET marks == {0} \cup {frame[i].calories : i \in 1..Len(frame)}
    IN  {r \in marks \X marks : r[1] <= r[2]}

PriceSlider(frame) ==
    LET marks == {Q(0, 1)} \cup
                 {frame[i].price : i \in {k \in 1..Len(frame) :
                                              ~IsNaN(frame[k].price)}}
    IN  {r \in marks \X marks : FLe(r[1], r[2])}

MealRankingsPage ==
    /\ pc = "loaded"
    /\ \E cf \in Selections(get_unique_cuisines(df)),
          dietf \in Selections(get_unique_specifications(df)),
          cr \in CalorieSlider(df), pr \in PriceSlider(df) :
          LET global_mean_rating == SeriesMean(Column(df, "rating"))
              rated == SelectSeq(df, LAMBDA r : Positive(r.rating))
              display_df ==
                  WithColumn(rated, "bayesian_avg",
                      calculate_bayesian_ratings(rated, global_mean_rating,
                                                 DefaultM))
              filtered == filter_dataframe(display_df, cf, dietf, cr, pr)
          IN  /\ C' = global_mean_rating
              /\ m' = DefaultM
              /\ cuisine_filter' = cf /\ diet_filter' = dietf
              /\ calorie_range' = cr /\ price_range' = pr
              /\ filtered_meals' = filtered
              /\ sorted_meals' \in SortValuesDescending(filtered, "bayesian_avg")
    /\ pc' = "rankings"
    /\ UNCHANGED <<csv, df, bayesian_avg, first_pass, stats_vars, outcome>>

\* valid_price_data with its value_score column.
ValidPriceData(frame) ==
    LET valid == SelectSeq(frame, LAMBDA r : ~IsNaN(r.price))
    IN  WithColumn(valid, "value_score",
            [i \in 1..Len(valid) |->
                FMul(FDiv(valid[i].bayesian_avg, valid[i].price),
                     FromInt(ValueScale))])

StatisticsPage ==
    /\ pc = "loaded"
    /\ LET global_mean_rating == SeriesMean(Column(df, "rating"))
           scored == WithColumn(df, "bayesian_avg",
                         calculate_bayesian_ratings(df, global_mean_rating,
                                                    DefaultM))
           valid_price_data == ValidPriceData(scored)
           rows == 1..Len(valid_price_data)
       IN  /\ C' = global_mean_rating
           /\ m' = DefaultM
           /\ df' = scored
           /\ IF valid_price_data = <<>>
              THEN \* the sliders have no range and no row reaches the ranking
                   /\ min_rating' = NaN /\ max_price' = NaN /\ max_calories' = 0
                   /\ top_value_meals' = <<>>
              ELSE \E a, b, c \in rows :
                   /\ min_rating' = valid_price_data[a].bayesian_avg
                   /\ max_price' = valid_price_data[b].price
                   /\ max_calories' = valid_price_data[c].calories
                   /\ top_value_meals' \in SortValuesDescending(
                          SelectSeq(valid_price_data,
                              LAMBDA r : /\ FGe(r.bayesian_avg, min_rating')
                                         /\ FLe(r.price, max_price')
                                         /\ r.calories <= max_calories'),
                          "value_score")
    /\ pc' = "stats"
    /\ UNCHANGED <<csv, bayesian_avg, filter_args, filter_vars, sorted_meals,
                   outcome>>

\* ------------------------------------------ the functions called directly
\* Priors and weights a caller passes, the weights m <= 0 included.
PriorValues == {Q(1, 1), Q(25, 8), Q(5, 1)}
WeightValues == {-12, 0, 1, 100}

ScoreCall ==
    /\ pc = "loaded"
    /\ \E c \in PriorValues, w \in WeightValues :
          /\ C' = c
          /\ m' = w
          /\ bayesian_avg' = calculate_bayesian_ratings(df, c, w)
    /\ pc' = "scored"
    /\ outcome' = "returned"
    /\ UNCHANGED <<csv, df, filter_args, filter_vars, sorted_meals, stats_vars>>

\* Ranges a caller passes, min > max included.
CalorieBounds == {0, 500}
PriceBounds == {Q(7, 1), Q(10, 1)}

FilterCall ==
    /\ pc = "loaded"
    /\ \E cf \in Selections(get_unique_cuisines(df)),
          dietf \in Selections(get_unique_specifications(df)),
          cr \in CalorieBounds \X CalorieBounds,
          pr \in PriceBounds \X PriceBounds :
          /\ cuisine_filter' = cf /\ diet_filter' = dietf
          /\ calorie_range' = cr /\ price_range' = pr
          /\ filtered_meals' = filter_dataframe(df, cf, dietf, cr, pr)
    /\ pc' = "filtered"
    /\ outcome' = "returned"
    /\ UNCHANGED <<csv, df, score_vars, first_pass, sorted_meals, stats_vars>>

\* filter_dataframe applied to its own output with the same arguments.
FilterAgain ==
    /\ pc = "filtered"
    /\ first_pass' = filtered_meals
    /\ filtered_meals' = filter_dataframe(filtered_meals, cuisine_filter,
                                          diet_filter, calorie_range, price_range)
    /\ pc' = "refiltered"
    /\ outcome' = "returned"
    /\ UNCHANGED <<csv, df, score_vars, filter_args, sorted_meals, stats_vars>>

Next ==
    \/ Rerun
    \/ HomePage
    \/ MealRankingsPage
    \/ StatisticsPage
    \/ ScoreCall
    \/ FilterCall
    \/ FilterAgain

Spec == Init /\ [][Next]_vars

\* ------------------------------------------------------------------ claims
Rows(frame) == Range(frame)

FMin(a, b) == IF FLe(a, b) THEN a ELSE b
FMax(a, b) == IF FLe(a, b) THEN b ELSE a

\* The call of calculate_bayesian_ratings had C in [1, 5] and m >= 1.
ValidScoreCall ==
    /\ pc = "scored"
    /\ m >= 1
    /\ FLe(Q(1, 1), C) /\ FLe(C, Q(5, 1))

\* C1 as stated: for every rating R, review count v >= 0, prior C in [1, 5]
\* and weight m >= 1 the score lies between min(R, C) and max(R, C) inclusive.
C1_ScoreBetweenMinAndMax ==
    ValidScoreCall =>
        \A i \in 1..Len(df) :
            /\ FLe(FMin(df[i].rating, C), bayesian_avg[i])
            /\ FLe(bayesian_avg[i], FMax(df[i].rating, C))

\* x >= lo * (1 - 4u) and x <= hi * (1 + 4u), u = 2^-Precision the unit
\* roundoff, for lo, hi >= 0.
WithinRounding(lo, x, hi) ==
    /\ lo.n * (Pow2(Precision) - 4) * x.d <= x.n * lo.d * Pow2(Precision)
    /\ x.n * hi.d * Pow2(Precision) <= hi.n * (Pow2(Precision) + 4) * x.d

\* C1 amended: for every rating R >= 0, review count v >= 0, prior C in [1, 5]
\* and weight m >= 1 the score is a finite number that lies between min(R, C)
\* and max(R, C) up to floating-point rounding, at most a relative four units
\* of roundoff outside that interval.
C1_ScoreBetweenUpToRounding ==
    ValidScoreCall =>
        \A i \in 1..Len(df) :
            /\ IsFinite(bayesian_avg[i])
            /\ WithinRounding(FMin(df[i].rating, C), bayesian_avg[i],
                              FMax(df[i].rating, C))

\* C1 witness: a valid call returned a score for a reviewed row, and a score
\* that rounding put outside [min(R, C), max(R, C)].
C1_Witness ==
    /\ ValidScoreCall
    /\ \E i \in 1..Len(df) :
          /\ Positive(df[i].review_count)
          /\ FLt(FMin(df[i].rating, C), bayesian_avg[i])
          /\ FLt(bayesian_avg[i], FMax(df[i].rating, C))
    /\ \E i \in 1..Len(df) : FGt(bayesian_avg[i], FMax(df[i].rating, C))

\* The tag set of a delimited cell: split, trimmed, empty entries dropped.
TagSet(cell, delim) ==
    IF cell = NaNStr THEN {}
    ELSE {Strip(tag) : tag \in Range(Split(cell, delim))} \ {<<>>}

\* A tag stage as the specification words it: an empty filter keeps the row,
\* a non-empty one keeps it when its tag set meets the selected tags.
TagsSelected(cell, delim, selected) ==
    selected = <<>> \/ TagSet(cell, delim) \cap Range(selected) # {}

InCalorieRange(r) ==
    r.calories >= calorie_range[1] /\ r.calories <= calorie_range[2]

InPriceRange(r) ==
    FLe(price_range[1], r.price) /\ FLe(r.price, price_range[2])

\* C2 as stated: with a non-empty filter the cuisine stage keeps a row exactly
\* when its cuisine tag set intersects the selected tags, and the diet stage
\* does the same over the specifications tag set; so a row of the table is in
\* the output of filter_dataframe exactly when it is rated, its tag sets meet
\* both selections, its calories are in range and its price is null or in
\* range.
C2_TagSetIntersection ==
    pc = "filtered" =>
        \A i \in 1..Len(df) :
            df[i] \in Rows(filtered_meals) <=>
                /\ Positive(df[i].rating)
                /\ TagsSelected(df[i].cuisines, ",", cuisine_filter)
                /\ TagsSelected(df[i].specifications, "|", diet_filter)
                /\ InCalorieRange(df[i])
                /\ (IsNaN(df[i].price) \/ InPriceRange(df[i]))

\* C3 as stated: no record with rating 0 is in the rating-ranked sequence of
\* the Meal Rankings page nor in the value-ranked sequence of the Statistics
\* page.
C3_NoUnratedInRankingViews ==
    \A r \in Rows(sorted_meals) \cup Rows(top_value_meals) : r.rating # Q(0, 1)

\* The rows the price stage of the last filter_dataframe call received.
PriceStageInput ==
    {r \in Rows(df) :
        /\ Positive(r.rating)
        /\ (cuisine_filter # <<>> =>
               StrContains(r.cuisines, Join(cuisine_filter, "|")))
        /\ (diet_filter # <<>> =>
               StrContains(r.specifications, Join(diet_filter, "|")))
        /\ InCalorieRange(r)}

\* C4: the price stage never excludes a null-price record: of the rows that
\* passed the rating, cuisine, diet and calorie stages, one with a null price
\* is in the output for every price range, and one with a non-null price is in
\* the output exactly when min <= price <= max.
C4_NullPriceAlwaysPasses ==
    pc = "filtered" =>
        /\ Rows(filtered_meals) \subseteq PriceStageInput
        /\ \A r \in PriceStageInput :
              /\ (IsNaN(r.price) => r \in Rows(filtered_meals))
              /\ (~IsNaN(r.price) =>
                    (r \in Rows(filtered_meals) <=> InPriceRange(r)))

\* C4 witness: a filter call kept a null-price row while its price range
\* excluded a priced row that had passed the earlier stages.
C4_Witness ==
    /\ pc = "filtered"
    /\ \E r \in Rows(filtered_meals) : IsNaN(r.price)
    /\ \E r \in PriceStageInput : ~IsNaN(r.price) /\ r \notin Rows(filtered_meals)

\* The last call had an invalid parameter.
InvalidScoreCall == pc = "scored" /\ m <= 0
InvalidFilterCall ==
    /\ pc = "filtered"
    /\ calorie_range[1] > calorie_range[2] \/ FGt(price_range[1], price_range[2])

\* C5 as stated: a call with m <= 0, or with a calorie or price range whose
\* min exceeds its max, ends in a ConfigurationError and returns no scores
\* and no filtered subset.
C5_InvalidParameterRejected ==
    /\ InvalidScoreCall =>
          outcome = "ConfigurationError" /\ bayesian_avg = <<>>
    /\ InvalidFilterCall =>
          outcome = "ConfigurationError" /\ filtered_meals = <<>>

\* C6 as stated: the value-ranked sequence holds only records with a non-null
\* price > 0, each with the finite value score (bayesianScore / price) * 1000,
\* in descending order of value score.
C6_ValueRankPositivePrice ==
    pc = "stats" =>
        /\ \A r \in Rows(top_value_meals) :
              /\ ~IsNaN(r.price) /\ Positive(r.price)
              /\ IsFinite(r.value_score)
              /\ r.value_score =
                    FMul(FDiv(r.bayesian_avg, r.price), FromInt(ValueScale))
        /\ \A i, j \in 1..Len(top_value_meals) :
              i < j => FGe(top_value_meals[i].value_score,
                           top_value_meals[j].value_score)

\* C7 as stated: the rating rank is in descending order of bayesianScore and
\* records with equal bayesianScore keep their original table order.
C7_StableRatingRank ==
    pc = "rankings" =>
        \A i, j \in 1..Len(sorted_meals) :
            i < j =>
                \/ FGt(sorted_meals[i].bayesian_avg, sorted_meals[j].bayesian_avg)
                \/ /\ FEq(sorted_meals[i].bayesian_avg, sorted_meals[j].bayesian_avg)
                   /\ sorted_meals[i].idx < sorted_meals[j].idx

\* C8 as stated: after any sequence of page renders the loaded table has the
\* rows and the columns it had right after load_data.
C8_LoadedTableImmutable ==
    /\ df = load_data(csv)
    /\ Columns(df) = CsvColumns

\* The realism floor of the price column.
PriceFloor == 7

\* C9 as stated: after load_data every record whose source price is below the
\* realism floor has a null price, and every record is kept.
C9_PriceFloorApplied ==
    /\ Len(df) = Len(csv)
    /\ \A i \in 1..Len(df) :
          FLt(csv[i].price, FromInt(PriceFloor)) => IsNaN(df[i].price)

\* C10: filter_dataframe is idempotent: applied to its own output with the
\* same arguments it returns the same subset in the same order.
C10_FilterIdempotent ==
    pc = "refiltered" => filtered_meals = first_pass

\* C10 witness: the second application ran on a first output that had dropped
\* some rows and kept others, under a tag filter.
C10_Witness ==
    /\ pc = "refiltered"
    /\ first_pass # <<>>
    /\ Len(first_pass) < Len(df)
    /\ cuisine_filter # <<>>

\* The rows of the scored table that have no reviews.
ZeroReviewRows == {i \in 1..Len(df) : df[i].review_count = Q(0, 1)}

\* C11 as stated: for any m > 0 and any rating R a record with zero reviews
\* gets exactly the prior as its score: score(R, 0, C, m) == C.
C11_ZeroReviewsGivePrior ==
    (pc = "scored" /\ m > 0) =>
        \A i \in ZeroReviewRows : bayesian_avg[i] = C

\* x is c up to two roundings: c * (1 - 3u) <= x <= c * (1 + 3u), u =
\* 2^-Precision the unit roundoff, for c >= 0.
PriorUpToRounding(x, c) ==
    /\ c.n * (Pow2(Precision) - 3) * x.d <= x.n * c.d * Pow2(Precision)
    /\ x.n * c.d * Pow2(Precision) <= c.n * (Pow2(Precision) + 3) * x.d

\* C11 amended: for any m > 0, any rating R and any prior C >= 0 a record with
\* zero reviews gets the prior as its score up to floating-point rounding:
\* the score is the rounded m * C divided by m and rounded again, a finite
\* number at most a relative three units of roundoff away from C, and it
\* does not depend on R.
C11_ZeroReviewsGivePriorUpToRounding ==
    (pc = "scored" /\ m > 0) =>
        \A i \in ZeroReviewRows :
            /\ IsFinite(bayesian_avg[i])
            /\ PriorUpToRounding(bayesian_avg[i], C)
            /\ bayesian_avg[i] = FDiv(FMul(FromInt(m), C), FromInt(m))

\* C11 witness: a call with m > 0 scored a row without reviews whose rating
\* differs from the prior, and rounding moved its score off the prior.
C11_Witness ==
    /\ pc = "scored" /\ m > 0
    /\ \E i \in ZeroReviewRows :
          /\ ~FEq(df[i].rating, C)
          /\ ~FEq(bayesian_avg[i], C)

\* The last step ran filter_dataframe over the rows of df: called directly,
\* or on the Meal Rankings page, where the rows carry their score.
Filtered == pc \in {"filtered", "rankings"}

\* The index labels of the rows filter_dataframe returned.
KeptLabels == {filtered_meals[i].idx : i \in 1..Len(filtered_meals)}

\* The rows the calorie stage of the last filter_dataframe call received:
\* the rated rows that passed the cuisine and the diet stage.
CalorieStageInput ==
    {r \in Rows(df) :
        /\ Positive(r.rating)
        /\ (cuisine_filter # <<>> =>
               StrContains(r.cuisines, Join(cuisine_filter, "|")))
        /\ (diet_filter # <<>> =>
               StrContains(r.specifications, Join(diet_filter, "|")))}

\* C12: the calorie stage of filter_dataframe uses inclusive bounds: a rated
\* record that reached the stage is kept by it exactly when calorieRange.min
\* <= calories <= calorieRange.max (it is in the output exactly when that
\* holds and the price stage after it lets it pass, and nothing else is in the
\* output), so with range (0, 500) a record at 500 calories is included and a
\* record at 501 is excluded.
C12_CalorieBoundsInclusive ==
    Filtered =>
        /\ KeptLabels \subseteq {r.idx : r \in CalorieStageInput}
        /\ \A r \in CalorieStageInput :
              /\ (r.idx \in KeptLabels <=>
                    /\ calorie_range[1] <= r.calories
                    /\ r.calories <= calorie_range[2]
                    /\ PriceMask(r, price_range))
              /\ (calorie_range = <<0, 500>> =>
                    /\ (r.calories = 500 /\ PriceMask(r, price_range)
                           => r.idx \in KeptLabels)
                    /\ (r.calories = 501 => r.idx \notin KeptLabels))

\* C12 witness: with the range (0, 500) the filter kept a record at 500
\* calories and dropped one at 501 that every other stage lets pass.
C12_Witness ==
    /\ Filtered
    /\ calorie_range = <<0, 500>>
    /\ \E r \in CalorieStageInput : r.calories = 500 /\ r.idx \in KeptLabels
    /\ \E r \in CalorieStageInput :
          /\ r.calories = 501
          /\ PriceMask(r, price_range)
          /\ r.idx \notin KeptLabels

\* The mean rating over the rated rows of the loaded table.
RatedMeanRating ==
    SeriesMean(Column(SelectSeq(load_data(csv), LAMBDA r : Positive(r.rating)),
                      "rating"))

\* C13 as stated: with no override the prior C of the Meal Rankings and of the
\* Statistics page is the mean rating over the rated records only (rating >
\* 0); records with rating 0 do not contribute to C.
C13_PriorIsMeanOfRated ==
    (pc \in {"rankings", "stats"}
        /\ \E r \in Rows(load_data(csv)) : Positive(r.rating))
    => C = RatedMeanRating

====
